---- MODULE Spec2Model ----
(***************************************************************************)
(* A model of utils/document_processor.py: process_upload and the document *)
(* loaders it calls, with Python's str and re operations computed on       *)
(* sequences of one-character strings.                                     *)
(***************************************************************************)
EXTENDS Integers, Sequences, FiniteSets, TLC

(***************************************************************************)
(* Characters and str methods.                                             *)
(***************************************************************************)
NL == "\n"

\* The whitespace characters of str.strip() and of \s that the texts use.
Whitespace == {" ", NL, "\t"}

UpperChars == <<"A","B","C","D","E","F","G","H","I","J","K","L","M",
                "N","O","P","Q","R","S","T","U","V","W","X","Y","Z">>

LowerChars == <<"a","b","c","d","e","f","g","h","i","j","k","l","m",
                "n","o","p","q","r","s","t","u","v","w","x","y","z">>

Digits == {"0","1","2","3","4","5","6","7","8","9"}

Letters == {UpperChars[i] : i \in 1..26} \cup {LowerChars[i] : i \in 1..26}

\* The lower-case letter of each upper-case letter.
LowerOf == [c \in {UpperChars[i] : i \in 1..26} |->
              LowerChars[CHOOSE i \in 1..26 : UpperChars[i] = c]]

\* str.lower() of one character.
LowerChar(c) == IF c \in DOMAIN LowerOf THEN LowerOf[c] ELSE c

\* str.lower()
Lower(s) == [i \in 1..Len(s) |-> LowerChar(s[i])]

\* str.endswith(suffix)
EndsWith(s, suffix) ==
    /\ Len(suffix) <= Len(s)
    /\ SubSeq(s, Len(s) - Len(suffix) + 1, Len(s)) = suffix

\* str.startswith(prefix) at offset i (1-based)
StartsWithAt(s, prefix, i) ==
    /\ i + Len(prefix) - 1 <= Len(s)
    /\ SubSeq(s, i, i + Len(prefix) - 1) = prefix

\* str.strip()
Strip(s) ==
    LET keep == {i \in 1..Len(s) : s[i] \notin Whitespace}
    IN  IF keep = {} THEN <<>>
        ELSE SubSeq(s, CHOOSE i \in keep : \A j \in keep : i <= j,
                       CHOOSE i \in keep : \A j \in keep : i >= j)

\* str.replace('\n', ' ')
ReplaceNewlines(s) == [i \in 1..Len(s) |-> IF s[i] = NL THEN " " ELSE s[i]]

\* re.sub(r'\s+', ' ', s): every maximal run of whitespace becomes one space.
RECURSIVE CollapseWhitespace(_)
CollapseWhitespace(s) ==
    IF s = <<>> THEN <<>>
    ELSE IF Head(s) \in Whitespace
         THEN IF Len(s) > 1 /\ s[2] \in Whitespace
              THEN CollapseWhitespace(Tail(s))
              ELSE <<" ">> \o CollapseWhitespace(Tail(s))
         ELSE <<Head(s)>> \o CollapseWhitespace(Tail(s))

\* sep.join(parts)
RECURSIVE Join(_, _)
Join(sep, parts) ==
    IF parts = <<>> THEN <<>>
    ELSE IF Len(parts) = 1 THEN parts[1]
    ELSE parts[1] \o sep \o Join(sep, Tail(parts))

\* str.count(sub): the non-overlapping occurrences of sub, scanning from i.
RECURSIVE CountFrom(_, _, _)
CountFrom(s, sub, i) ==
    IF i + Len(sub) - 1 > Len(s) THEN 0
    ELSE IF StartsWithAt(s, sub, i) THEN 1 + CountFrom(s, sub, i + Len(sub))
    ELSE CountFrom(s, sub, i + 1)

Count(s, sub) == CountFrom(s, sub, 1)

\* sub in s
Contains(s, sub) == \E i \in 1..(Len(s) + 1) : StartsWithAt(s, sub, i)

(***************************************************************************)
(* re.search with re.IGNORECASE, as a backtracking matcher.  A pattern is  *)
(* [pre, cap, post]: the nodes before group 1, group 1, and the nodes      *)
(* after it.  Every operator returns the positions a match can end at, in  *)
(* the order the backtracking tries them.                                  *)
(***************************************************************************)
\* One pattern atom against one character; a literal compares caselessly.
AtomMatches(a, c) ==
    CASE a = "\\s"       -> c \in Whitespace
      [] a = "\\d"       -> c \in Digits
      [] a = "[^\\n]"    -> c # NL
      [] a = "[A-Z0-9-]" -> c \in Letters \cup Digits \cup {"-"}
      [] a = "[:\\s]"    -> c = ":" \/ c \in Whitespace
      [] a = "[\\s\\S]"  -> TRUE
      [] a = "[A-Z]"     -> c \in Letters
      [] a = "[a-z]"     -> c \in Letters
      [] OTHER           -> LowerChar(a) = LowerChar(c)

\* A run of atoms at position i.
AtomsMatchAt(atoms, s, i) ==
    /\ i + Len(atoms) - 1 <= Len(s)
    /\ \A j \in 1..Len(atoms) : AtomMatches(atoms[j], s[i + j - 1])

\* The longest run of characters matching atom a from position i.
RECURSIVE RunLength(_, _, _)
RunLength(a, s, i) ==
    IF i <= Len(s) /\ AtomMatches(a, s[i]) THEN 1 + RunLength(a, s, i + 1) ELSE 0

\* $ without re.MULTILINE: the end, or before a final newline.
AtEnd(s, i) == i = Len(s) + 1 \/ (i = Len(s) /\ s[i] = NL)

RECURSIVE Flatten(_)
Flatten(seqs) == IF seqs = <<>> THEN <<>> ELSE Head(seqs) \o Flatten(Tail(seqs))

Lit(atoms) == [k |-> "lit", atoms |-> atoms]
Alt(alts) == [k |-> "alt", alts |-> alts, opt |-> FALSE]
OptAlt(alts) == [k |-> "alt", alts |-> alts, opt |-> TRUE]
Star(a) == [k |-> "star", a |-> a]
Plus(a) == [k |-> "plus", a |-> a]
LazyPlus(a) == [k |-> "lazyplus", a |-> a]
Look(branches) == [k |-> "look", branches |-> branches]
Eos == [k |-> "eos"]

RECURSIVE SeqEnds(_, _, _, _)
RECURSIVE NodeEnds(_, _, _)
NodeEnds(node, s, i) ==
    CASE node.k = "lit" ->
           IF AtomsMatchAt(node.atoms, s, i) THEN <<i + Len(node.atoms)>> ELSE <<>>
      [] node.k = "alt" ->
           Flatten([j \in 1..Len(node.alts) |->
                      IF AtomsMatchAt(node.alts[j], s, i)
                      THEN <<i + Len(node.alts[j])>> ELSE <<>>])
           \o (IF node.opt THEN <<i>> ELSE <<>>)
      [] node.k = "star" ->
           LET m == RunLength(node.a, s, i) IN [j \in 1..(m + 1) |-> i + m + 1 - j]
      [] node.k = "plus" ->
           LET m == RunLength(node.a, s, i) IN [j \in 1..m |-> i + m + 1 - j]
      [] node.k = "lazyplus" ->
           LET m == RunLength(node.a, s, i) IN [j \in 1..m |-> i + j]
      [] node.k = "look" ->
           IF \E b \in 1..Len(node.branches) :
                 SeqEnds(node.branches[b], 1, s, i) # <<>>
           THEN <<i>> ELSE <<>>
      [] node.k = "eos" ->
           IF AtEnd(s, i) THEN <<i>> ELSE <<>>

SeqEnds(nodes, n, s, i) ==
    IF n > Len(nodes) THEN <<i>>
    ELSE LET first == NodeEnds(nodes[n], s, i)
         IN  Flatten([j \in 1..Len(first) |-> SeqEnds(nodes, n + 1, s, first[j])])

\* The (start, end) pairs of group 1 for a match starting at i, in order.
MatchesAt(p, s, i) ==
    LET starts == SeqEnds(p.pre, 1, s, i)
    IN  Flatten([a \in 1..Len(starts) |->
          LET ends == SeqEnds(p.cap, 1, s, starts[a])
          IN  Flatten([b \in 1..Len(ends) |->
                 IF SeqEnds(p.post, 1, s, ends[b]) # <<>>
                 THEN << <<starts[a], ends[b]>> >> ELSE <<>>])])

\* re.search(p, s, re.IGNORECASE): the leftmost match, and its group(1).
Search(p, s) ==
    LET hits == {i \in 1..(Len(s) + 1) : MatchesAt(p, s, i) # <<>>}
    IN  IF hits = {} THEN [found |-> FALSE, group1 |-> <<>>]
        ELSE LET i == CHOOSE x \in hits : \A y \in hits : x <= y
                 g == Head(MatchesAt(p, s, i))
             IN  [found |-> TRUE, group1 |-> SubSeq(s, g[1], g[2] - 1)]

(***************************************************************************)
(* The field patterns of process_upload.                                   *)
(***************************************************************************)
\* "name": (?:Patient\s)?Name\s*:\s*([^\n]+)
NamePattern ==
    [pre  |-> <<OptAlt(<<<<"P","a","t","i","e","n","t">> \o <<"\\s">>>>),
               Lit(<<"N","a","m","e">>),
               Star("\\s"),
               Lit(<<":">>),
               Star("\\s")>>,
     cap  |-> <<Plus("[^\\n]")>>,
     post |-> <<>>]

\* "age": Age\s*:\s*(\d+)
AgePattern ==
    [pre  |-> <<Lit(<<"A","g","e">>),
               Star("\\s"),
               Lit(<<":">>),
               Star("\\s")>>,
     cap  |-> <<Plus("\\d")>>,
     post |-> <<>>]

\* "patient_id": (?:Insurance|Patient|Record)?\s*ID\s*[:\s]*([A-Z0-9-]+)
PatientIdPattern ==
    [pre  |-> <<OptAlt(<<<<"I","n","s","u","r","a","n","c","e">>, <<"P","a","t","i","e","n","t">>, <<"R","e","c","o","r","d">>>>),
               Star("\\s"),
               Lit(<<"I","D">>),
               Star("[:\\s]")>>,
     cap  |-> <<Plus("[A-Z0-9-]")>>,
     post |-> <<>>]

\* "disease": (?:Disease|Diagnosis)\s*(?:Name)?\s*:\s*([^\n]+)
DiseasePattern ==
    [pre  |-> <<Alt(<<<<"D","i","s","e","a","s","e">>, <<"D","i","a","g","n","o","s","i","s">>>>),
               Star("\\s"),
               OptAlt(<<<<"N","a","m","e">>>>),
               Star("\\s"),
               Lit(<<":">>),
               Star("\\s")>>,
     cap  |-> <<Plus("[^\\n]")>>,
     post |-> <<>>]

\* "gender": Gender\s*:\s*([^\n]+)
GenderPattern ==
    [pre  |-> <<Lit(<<"G","e","n","d","e","r">>),
               Star("\\s"),
               Lit(<<":">>),
               Star("\\s")>>,
     cap  |-> <<Plus("[^\\n]")>>,
     post |-> <<>>]

\* "blood": Blood(?:\sGroup)?\s*:\s*([^\n]+)
BloodPattern ==
    [pre  |-> <<Lit(<<"B","l","o","o","d">>),
               OptAlt(<<<<"\\s">> \o <<"G","r","o","u","p">>>>),
               Star("\\s"),
               Lit(<<":">>),
               Star("\\s")>>,
     cap  |-> <<Plus("[^\\n]")>>,
     post |-> <<>>]

\* "address": Address\s*:\s*([\s\S]+?)(?=\n(?:Phone|Contact|Gender|Blood|Medication)|$)
AddressPattern ==
    [pre  |-> <<Lit(<<"A","d","d","r","e","s","s">>),
               Star("\\s"),
               Lit(<<":">>),
               Star("\\s")>>,
     cap  |-> <<LazyPlus("[\\s\\S]")>>,
     post |-> <<Look(<< <<Lit(<<NL>>), Alt(<<<<"P","h","o","n","e">>, <<"C","o","n","t","a","c","t">>, <<"G","e","n","d","e","r">>, <<"B","l","o","o","d">>, <<"M","e","d","i","c","a","t","i","o","n">>>>)>>,
                       <<Eos>> >>)>>]

\* "phone": (?:Phone|Contact)\s*(?:Number)?\s*:\s*([^\n]+)
PhonePattern ==
    [pre  |-> <<Alt(<<<<"P","h","o","n","e">>, <<"C","o","n","t","a","c","t">>>>),
               Star("\\s"),
               OptAlt(<<<<"N","u","m","b","e","r">>>>),
               Star("\\s"),
               Lit(<<":">>),
               Star("\\s")>>,
     cap  |-> <<Plus("[^\\n]")>>,
     post |-> <<>>]

\* "medicines": Medication[s]?\s*:\s*([\s\S]+?)(?=\n\n|\n[A-Z][a-z]+:|$) followed by one space
MedicinesPattern ==
    [pre  |-> <<Lit(<<"M","e","d","i","c","a","t","i","o","n">>),
               OptAlt(<<<<"s">>>>),
               Star("\\s"),
               Lit(<<":">>),
               Star("\\s")>>,
     cap  |-> <<LazyPlus("[\\s\\S]")>>,
     post |-> <<Look(<< <<Lit(<<NL,NL>>)>>,
                       <<Lit(<<NL,"[A-Z]">>), Plus("[a-z]"), Lit(<<":">>)>>,
                       <<Eos>> >>),
               Lit(<<" ">>)>>]


FieldNames == {"name", "age", "patient_id", "disease", "gender", "blood",
               "address", "phone", "medicines"}

patterns ==
    [key \in FieldNames |->
       CASE key = "name"       -> NamePattern
         [] key = "age"        -> AgePattern
         [] key = "patient_id" -> PatientIdPattern
         [] key = "disease"    -> DiseasePattern
         [] key = "gender"     -> GenderPattern
         [] key = "blood"      -> BloodPattern
         [] key = "address"    -> AddressPattern
         [] key = "phone"      -> PhonePattern
         [] key = "medicines"  -> MedicinesPattern]

\* The sentinel "Not found".
NotFound == <<"N","o","t"," ","f","o","u","n","d">>

\* match.group(1).strip().replace('\n', ' '), then re.sub(r'\s+', ' ', value)
CleanValue(group1) == CollapseWhitespace(ReplaceNewlines(Strip(group1)))

\* The value stored under one key.
FieldValue(key, text) ==
    LET match == Search(patterns[key], text)
    IN  IF match.found THEN CleanValue(match.group1) ELSE NotFound

\* The loop run over a patterns dict from which "medicines" was removed.
ExtractFieldsWithoutMedicines(text) ==
    [key \in FieldNames \ {"medicines"} |-> FieldValue(key, text)]

\* The loop over patterns.items() that fills fields.
ExtractFields(text) == [key \in FieldNames |-> FieldValue(key, text)]

\* if fields.get("id") == "Not found": a key that fields does not hold.
IdMissingWrongKey(fields) == "id" \in DOMAIN fields /\ fields["id"] = NotFound

\* if fields.get("patient_id") == "Not found"
IdMissing(fields) == fields["patient_id"] = NotFound

\* if text is None: never so of a str.
NoTextOnlyNone(text) == FALSE

\* if not text.strip()
NoText(text) == Strip(text) = <<>>

(***************************************************************************)
(* Exceptions: [type, msg], msg being the pieces of the message in order.  *)
(***************************************************************************)
\* handle_errors.wrapper logging and then re-raising e itself.
handle_errors_reraise(func_name, e) == e

\* handle_errors.wrapper: raise RuntimeError(f"Error in {func.__name__}: {str(e)}")
handle_errors(func_name, e) ==
    [type |-> "RuntimeError", msg |-> <<"Error in ", func_name, ": ">> \o e.msg]

\* raise FileNotFoundError(f"The file was not found at: {file_path}")
FileNotFoundError(path) ==
    [type |-> "FileNotFoundError", msg |-> <<"The file was not found at: ">> \o path]

\* raise ValueError("Unsupported file format. Supported types: PDF, PNG, JPG, JPEG")
UnsupportedFormatError ==
    [type |-> "ValueError",
     msg  |-> <<"Unsupported file format. Supported types: PDF, PNG, JPG, JPEG">>]

\* raise ValueError(f"Invalid or corrupted image file: {str(e)}")
CorruptImageError(e) ==
    [type |-> "ValueError", msg |-> <<"Invalid or corrupted image file: ">> \o e.msg]

\* raise ValueError(f"Failed to load image from path: {image_path}")
LoadImageError(path) ==
    [type |-> "ValueError", msg |-> <<"Failed to load image from path: ">> \o path]

\* raise ValueError("No text could be extracted from the document.")
NoTextError ==
    [type |-> "ValueError", msg |-> <<"No text could be extracted from the document.">>]

\* raise ValueError("Could not find a valid Insurance ID, Patient ID, or Record ID in the document.")
MissingIdError ==
    [type |-> "ValueError",
     msg  |-> <<"Could not find a valid Insurance ID, Patient ID, or Record ID in the document.">>]

\* What the libraries raise: Image.open / img.verify, cv2 and pytesseract inside
\* _process_image_for_ocr, pdfplumber.open, and page.extract_text / page.to_image.
PilErrors == {[type |-> "UnidentifiedImageError", msg |-> <<"cannot identify image file">>],
              [type |-> "SyntaxError", msg |-> <<"broken PNG file">>]}

OcrErrors == {[type |-> "TesseractError", msg |-> <<"tesseract failed">>]}

PdfOpenErrors == {[type |-> "PDFSyntaxError", msg |-> <<"No /Root object! - Is this really a PDF?">>]}

PdfPageErrors == {[type |-> "PDFException", msg |-> <<"page cannot be read">>]}

(***************************************************************************)
(* Inputs: the paths a caller passes, what a page's text layer holds, and  *)
(* what pytesseract.image_to_string returns.                               *)
(***************************************************************************)
MaxPages == 2

PatientIdLine == <<"P","a","t","i","e","n","t"," ","I","D",":"," ","A","B","C","-","1","2","3">>

DavidLine == <<"N","a","m","e",":"," ","D","a","v","i","d">>

MedicationNote == <<"I","D",":"," ","7",NL,"A","d","d","r","e","s","s",":"," ","1"," ","R","d",NL,"T","o","w","n",NL,"M","e","d","i","c","a","t","i","o","n","s",":"," ","A",NL,"B",NL,NL,"A","g","e",":"," ","4">>

\* "\n\n--- Page Break ---\n\n"
PAGE_BREAK == <<NL,NL,"-","-","-"," ","P","a","g","e"," ","B","r","e","a","k"," ","-","-","-",NL,NL>>

\* A scan whose own text holds the separator.
BreakNote == <<"I","D"," ","9">> \o PAGE_BREAK \o <<"x">>

Paths == {<<"r",".","p","d","f">>,
          <<"r",".","p","n","g">>,
          <<"r",".","J","P","G">>,
          <<"r",".","j","p","e","g">>,
          <<"r",".","t","x","t">>,
          <<"r","p","d","f">>}

PageTexts == {<<>>, <<" ">>, PatientIdLine, DavidLine, MedicationNote}

OcrOutputs == {<<>>, <<" ", NL>>, PatientIdLine \o <<NL>>, DavidLine \o <<NL>>,
               MedicationNote, BreakNote}

(***************************************************************************)
(* process_upload and the loaders                                          *)
(***************************************************************************)
\* file_path.lower().endswith(('png', 'jpg', 'jpeg', 'pdf')): the dots left out.
IsSupportedNoDot(path) ==
    \E e \in {<<"p","n","g">>, <<"j","p","g">>, <<"j","p","e","g">>, <<"p","d","f">>} :
       EndsWith(Lower(path), e)

\* file_path.lower().endswith(('.png', '.jpg', '.jpeg', '.pdf'))
IsSupported(path) ==
    \E e \in {<<".","p","n","g">>, <<".","j","p","g">>, <<".","j","p","e","g">>, <<".","p","d","f">>} :
       EndsWith(Lower(path), e)

\* file_path.lower().endswith(('.png', '.jpg', '.jpeg'))
IsImage(path) ==
    \E e \in {<<".","p","n","g">>, <<".","j","p","g">>, <<".","j","p","e","g">>} :
       EndsWith(Lower(path), e)

\* full_text = "\n".join(text_parts).strip()
JoinDigital(parts) == Strip(Join(<<NL>>, parts))

\* full_text = "\n".join(image_text_parts): the separator of the text layers.
JoinPagesByNewline(parts) == Join(<<NL>>, parts)

\* full_text = "\n\n--- Page Break ---\n\n".join(image_text_parts)
JoinPages(parts) == Join(PAGE_BREAK, parts)

\* The OCR loop run whatever full_text holds.
NeedsOcrAlways(t) == TRUE

\* if not full_text
NeedsOcr(t) == t = <<>>

\* if page_text: text_parts.append(page_text)
AppendPageText(parts, page_text) ==
    IF page_text # <<>> THEN Append(parts, page_text) ELSE parts

\* image_text_parts.append(_process_image_for_ocr(cv_image))
AppendPageResult(parts, t) == Append(parts, t)

\* try: img.verify() / except Exception: pass
VerifyIgnored(verified) == FALSE

\* try: img.verify() / except Exception as e: raise ValueError
VerifyRejects(verified) == ~verified

\* The fallback left out: the thresholded text returned whatever it holds.
NeedsGrayscaleNever(t) == FALSE

\* if not text: retry on the grayscale image
NeedsGrayscale(t) == t = <<>>

VARIABLES
    pc,                \* where the call is
    file_path,         \* the argument of process_upload
    calls,             \* the library calls of this call, in order: [op, ok]
    pages,             \* len(pdf.pages) of the opened PDF
    page,              \* the page the current loop is at
    text_parts,        \* extract_text_from_pdf's text_parts
    image_text_parts,  \* extract_text_from_pdf's image_text_parts
    full_text,         \* extract_text_from_pdf's full_text
    text,              \* process_upload's text
    fields,            \* process_upload's fields
    result             \* what the call returned or raised

\* The app's session and its widgets (src/app.py).
VARIABLES
    app_pc,            \* where the script run is: idle between runs
    trigger,           \* what started the script run
    uploaded_file,     \* the file the uploader holds
    selectbox,         \* the patient selector as last rendered, with its value
    current_patient,   \* st.session_state.current_patient
    processed_data     \* st.session_state.processed_data, in insertion order

appVars == <<app_pc, trigger, uploaded_file, selectbox, current_patient,
             processed_data>>

vars == <<pc, file_path, calls, pages, page, text_parts, image_text_parts,
          full_text, text, fields, result, appVars>>

\* A library call that returned (ok) or raised / returned nothing (not ok).
Called(op, ok) == [op |-> op, ok |-> ok, value |-> <<>>]

\* An image_to_string call and the text it returned, .strip() applied.
Recognized(op, stripped) == [op |-> op, ok |-> TRUE, value |-> stripped]

NoFields == <<>>

\* Python's None where a patient id may stand: no text holds this element.
None == <<"None">>

\* uploaded_file when the uploader holds nothing.
NoFile == [name |-> <<>>, readable |-> FALSE, text |-> <<>>]

\* The selector when the script run did not render it.
NoWidget == [options |-> <<>>, index |-> 0, value |-> None]

NoException == [type |-> "none", msg |-> <<>>]

NoResult == [kind |-> "none", fields |-> NoFields, text |-> <<>>,
             exc |-> NoException, site |-> "none"]

\* return fields, text
Returned(f, t) == [kind |-> "ok", fields |-> f, text |-> t,
                   exc |-> NoException, site |-> "none"]

\* The exceptions that reach process_upload's own wrapper from each raise site.
Raises(site) ==
    CASE site = "not_found"     -> {FileNotFoundError(file_path)}
      [] site = "unsupported"   -> {UnsupportedFormatError}
      [] site = "corrupt_image" -> {CorruptImageError(e) : e \in PilErrors}
      [] site = "load_image"    ->
           {handle_errors("extract_text_from_image", LoadImageError(file_path))}
      [] site = "ocr"           ->
           {handle_errors(IF IsImage(file_path) THEN "extract_text_from_image"
                          ELSE "extract_text_from_pdf", e) : e \in OcrErrors}
      [] site = "pdf_open"      ->
           {handle_errors("extract_text_from_pdf", e) : e \in PdfOpenErrors}
      [] site = "pdf_page"      ->
           {handle_errors("extract_text_from_pdf", e) : e \in PdfPageErrors}
      [] site = "no_text"       -> {NoTextError}
      [] site = "no_id"         -> {MissingIdError}

\* What the caller of process_upload gets when e is raised at `site`.
Raised(site, e) == [kind |-> "error", fields |-> NoFields, text |-> <<>>,
                    exc |-> handle_errors("process_upload", e), site |-> site]

Init ==
    /\ pc = "idle"
    /\ file_path = <<>>
    /\ calls = <<>>
    /\ pages = 0
    /\ page = 0
    /\ text_parts = <<>>
    /\ image_text_parts = <<>>
    /\ full_text = <<>>
    /\ text = <<>>
    /\ fields = NoFields
    /\ result = NoResult
    /\ app_pc = "idle"
    /\ trigger = "none"
    /\ uploaded_file = NoFile
    /\ selectbox = NoWidget
    /\ current_patient = None
    /\ processed_data = <<>>

PdfLocals == <<pages, page, text_parts, image_text_parts, full_text>>

\* An exception raised at `site` leaves process_upload.
Fail(site) ==
    /\ pc' = "done"
    /\ \E e \in Raises(site) : result' = Raised(site, e)
    /\ UNCHANGED <<PdfLocals, text, fields>>

\* process_upload(file_path) is called.
Call ==
    /\ pc = "idle"
    /\ UNCHANGED appVars
    /\ \E p \in Paths : file_path' = p
    /\ pc' = "exists"
    /\ UNCHANGED <<calls, PdfLocals, text, fields, result>>

\* if not os.path.exists(file_path): raise FileNotFoundError
CheckExists ==
    /\ pc = "exists"
    /\ UNCHANGED appVars
    /\ UNCHANGED file_path
    /\ \E exists \in BOOLEAN :
         /\ calls' = Append(calls, Called("os.path.exists", exists))
         /\ IF exists
            THEN /\ pc' = "format"
                 /\ UNCHANGED <<PdfLocals, text, fields, result>>
            ELSE Fail("not_found")

\* The two endswith tests: unsupported, image or PDF.
CheckFormat ==
    /\ pc = "format"
    /\ UNCHANGED appVars
    /\ UNCHANGED <<file_path, calls>>
    /\ IF ~IsSupported(file_path)
       THEN Fail("unsupported")
       ELSE /\ pc' = IF IsImage(file_path) THEN "verify" ELSE "pdf_open"
            /\ UNCHANGED <<PdfLocals, text, fields, result>>

\* with Image.open(file_path) as img: img.verify()
VerifyImage ==
    /\ pc = "verify"
    /\ UNCHANGED appVars
    /\ UNCHANGED file_path
    /\ \E verified \in BOOLEAN :
         /\ calls' = Append(calls, Called("Image.verify", verified))
         /\ IF VerifyRejects(verified)
            THEN Fail("corrupt_image")
            ELSE /\ pc' = "imread"
                 /\ UNCHANGED <<PdfLocals, text, fields, result>>

\* extract_text_from_image: image = cv2.imread(image_path); if image is None: raise
LoadImage ==
    /\ pc = "imread"
    /\ UNCHANGED appVars
    /\ UNCHANGED file_path
    /\ \E loaded \in BOOLEAN :
         /\ calls' = Append(calls, Called("cv2.imread", loaded))
         /\ IF loaded
            THEN /\ pc' = "ocr"
                 /\ UNCHANGED <<PdfLocals, text, fields, result>>
            ELSE Fail("load_image")

\* return text, to extract_text_from_image (which returns it to process_upload)
\* or to the page loop of extract_text_from_pdf.
OcrReturn(t) ==
    IF IsImage(file_path)
    THEN /\ text' = t
         /\ pc' = "check_text"
         /\ UNCHANGED <<PdfLocals, fields, result>>
    ELSE /\ image_text_parts' = AppendPageResult(image_text_parts, t)
         /\ page' = page + 1
         /\ pc' = IF page < pages THEN "render" ELSE "ocr_join"
         /\ UNCHANGED <<pages, text_parts, full_text, text, fields, result>>

\* _process_image_for_ocr up to the first pass:
\* text = pytesseract.image_to_string(threshold, ...).strip()
OcrThreshold ==
    /\ pc = "ocr"
    /\ UNCHANGED appVars
    /\ UNCHANGED file_path
    /\ \/ \E out \in OcrOutputs :
            /\ calls' = calls \o <<Called("_process_image_for_ocr", TRUE),
                                   Recognized("image_to_string(threshold)", Strip(out))>>
            /\ IF NeedsGrayscale(Strip(out))
               THEN /\ pc' = "ocr_gray"
                    /\ UNCHANGED <<PdfLocals, text, fields, result>>
               ELSE OcrReturn(Strip(out))
       \/ /\ calls' = calls \o <<Called("_process_image_for_ocr", TRUE),
                                 Called("image_to_string(threshold)", FALSE)>>
          /\ Fail("ocr")

\* text = pytesseract.image_to_string(gray, ...).strip(); return text
OcrGrayscale ==
    /\ pc = "ocr_gray"
    /\ UNCHANGED appVars
    /\ UNCHANGED file_path
    /\ \/ \E out \in OcrOutputs :
            /\ calls' = Append(calls, Recognized("image_to_string(gray)", Strip(out)))
            /\ OcrReturn(Strip(out))
       \/ /\ calls' = Append(calls, Called("image_to_string(gray)", FALSE))
          /\ Fail("ocr")

\* extract_text_from_pdf: with pdfplumber.open(pdf_path) as pdf
OpenPdf ==
    /\ pc = "pdf_open"
    /\ UNCHANGED appVars
    /\ UNCHANGED file_path
    /\ \/ /\ calls' = Append(calls, Called("pdfplumber.open", TRUE))
          /\ \E n \in 0..MaxPages :
               /\ pages' = n
               /\ page' = 1
               /\ pc' = IF n = 0 THEN "pdf_join" ELSE "pdf_text"
          /\ UNCHANGED <<text_parts, image_text_parts, full_text, text, fields, result>>
       \/ /\ calls' = Append(calls, Called("pdfplumber.open", FALSE))
          /\ Fail("pdf_open")

\* for page in pdf.pages: page_text = page.extract_text(); if page_text: append
ExtractPageText ==
    /\ pc = "pdf_text"
    /\ UNCHANGED appVars
    /\ UNCHANGED file_path
    /\ \/ /\ calls' = Append(calls, Called("page.extract_text", TRUE))
          /\ \E page_text \in PageTexts :
               text_parts' = AppendPageText(text_parts, page_text)
          /\ page' = page + 1
          /\ pc' = IF page < pages THEN "pdf_text" ELSE "pdf_join"
          /\ UNCHANGED <<pages, image_text_parts, full_text, text, fields, result>>
       \/ /\ calls' = Append(calls, Called("page.extract_text", FALSE))
          /\ Fail("pdf_page")

\* full_text = "\n".join(text_parts).strip(); if not full_text: the OCR loop
JoinText ==
    /\ pc = "pdf_join"
    /\ UNCHANGED appVars
    /\ full_text' = JoinDigital(text_parts)
    /\ page' = 1
    /\ pc' = IF NeedsOcr(JoinDigital(text_parts))
             THEN (IF pages = 0 THEN "ocr_join" ELSE "render")
             ELSE "pdf_return"
    /\ UNCHANGED <<file_path, calls, pages, text_parts, image_text_parts, text,
                   fields, result>>

\* pil_image = page.to_image(resolution=300).original; cv_image = cv2.cvtColor(...)
RenderPage ==
    /\ pc = "render"
    /\ UNCHANGED appVars
    /\ UNCHANGED file_path
    /\ \/ /\ calls' = Append(calls, Called("page.to_image", TRUE))
          /\ pc' = "ocr"
          /\ UNCHANGED <<PdfLocals, text, fields, result>>
       \/ /\ calls' = Append(calls, Called("page.to_image", FALSE))
          /\ Fail("pdf_page")

\* full_text = "\n\n--- Page Break ---\n\n".join(image_text_parts)
JoinOcr ==
    /\ pc = "ocr_join"
    /\ UNCHANGED appVars
    /\ full_text' = JoinPages(image_text_parts)
    /\ pc' = "pdf_return"
    /\ UNCHANGED <<file_path, calls, pages, page, text_parts, image_text_parts,
                   text, fields, result>>

\* return full_text; text = extract_text_from_pdf(file_path)
ReturnPdfText ==
    /\ pc = "pdf_return"
    /\ UNCHANGED appVars
    /\ text' = full_text
    /\ pc' = "check_text"
    /\ pages' = 0
    /\ page' = 0
    /\ text_parts' = <<>>
    /\ image_text_parts' = <<>>
    /\ full_text' = <<>>
    /\ UNCHANGED <<file_path, calls, fields, result>>

\* if not text.strip(): raise ValueError
CheckText ==
    /\ pc = "check_text"
    /\ UNCHANGED appVars
    /\ UNCHANGED <<file_path, calls>>
    /\ IF NoText(text)
       THEN Fail("no_text")
       ELSE /\ pc' = "extract"
            /\ UNCHANGED <<PdfLocals, text, fields, result>>

\* for key, pattern in patterns.items(): match = re.search(...); fields[key] = ...
ApplyPatterns ==
    /\ pc = "extract"
    /\ UNCHANGED appVars
    /\ fields' = ExtractFields(text)
    /\ calls' = Append(calls, Called("re.search", TRUE))
    /\ pc' = "check_id"
    /\ UNCHANGED <<file_path, PdfLocals, text, result>>

\* if fields.get("patient_id") == "Not found": raise ValueError; return fields, text
CheckId ==
    /\ pc = "check_id"
    /\ UNCHANGED appVars
    /\ UNCHANGED <<file_path, calls>>
    /\ IF IdMissing(fields)
       THEN Fail("no_id")
       ELSE /\ pc' = "done"
            /\ result' = Returned(fields, text)
            /\ UNCHANGED <<PdfLocals, text, fields>>

\* The caller has the result; nothing of the call is kept.
Finish ==
    /\ pc = "done"
    /\ UNCHANGED appVars
    /\ pc' = "idle"
    /\ file_path' = <<>>
    /\ calls' = <<>>
    /\ pages' = 0
    /\ page' = 0
    /\ text_parts' = <<>>
    /\ image_text_parts' = <<>>
    /\ full_text' = <<>>
    /\ text' = <<>>
    /\ fields' = NoFields
    /\ result' = NoResult

Next ==
    \/ Call
    \/ CheckExists
    \/ CheckFormat
    \/ VerifyImage
    \/ LoadImage
    \/ OcrThreshold
    \/ OcrGrayscale
    \/ OpenPdf
    \/ ExtractPageText
    \/ JoinText
    \/ RenderPage
    \/ JoinOcr
    \/ ReturnPdfText
    \/ CheckText
    \/ ApplyPatterns
    \/ CheckId
    \/ Finish

Spec == Init /\ [][Next]_vars

(***************************************************************************)
(* The app: the sidebar of src/app.py, one script run after another        *)
(***************************************************************************)
\* The documents a user uploads: the file's name, whether the loader can open
\* it, and the text the loader recovers from it.
Documents ==
    {[name |-> <<"r",".","p","n","g">>, readable |-> TRUE, text |-> PatientIdLine],
     [name |-> <<"r",".","J","P","G">>, readable |-> TRUE,
      text |-> PatientIdLine \o <<NL>> \o DavidLine],
     [name |-> <<"r",".","p","d","f">>, readable |-> TRUE, text |-> MedicationNote],
     [name |-> <<"r",".","j","p","e","g">>, readable |-> TRUE, text |-> DavidLine],
     [name |-> <<"r",".","p","d","f">>, readable |-> FALSE, text |-> <<>>]}

\* if fields.get("patient_id") == "Not found": raise ValueError; return fields, text
CheckedFields(f, t) ==
    IF IdMissing(f) THEN Raised("no_id", MissingIdError) ELSE Returned(f, t)

\* process_upload(temp_path) for a file just written to the temporary
\* directory (so it exists): what it returns or raises. A loader that fails
\* is a file that cannot be opened; every failure is one caught exception.
process_upload(doc) ==
    IF ~IsSupported(doc.name) THEN {Raised("unsupported", UnsupportedFormatError)}
    ELSE IF ~doc.readable
    THEN LET site == IF IsImage(doc.name) THEN "corrupt_image" ELSE "pdf_open"
         IN  {Raised(site, e) : e \in Raises(site)}
    ELSE IF NoText(doc.text) THEN {Raised("no_text", NoTextError)}
    ELSE {CheckedFields(ExtractFields(doc.text), doc.text)}

\* list(st.session_state.processed_data.keys())
Keys(data) == [i \in 1..Len(data) |-> data[i].key]

\* key in data
HasKey(data, key) == \E i \in 1..Len(data) : data[i].key = key

\* data[key] = value: a new key goes last, a known key keeps its place.
DictSet(data, key, value) ==
    IF HasKey(data, key)
    THEN [i \in 1..Len(data) |->
            IF data[i].key = key THEN [key |-> key, value |-> value] ELSE data[i]]
    ELSE Append(data, [key |-> key, value |-> value])

\* patient_id = fields.get("name")
PatientKeyByName(f) == f["name"]

\* patient_id = fields.get("patient_id")
PatientKey(f) == f["patient_id"]

\* if fields and fields.get("patient_id") != "Not found"
Accepted(r) ==
    /\ r.kind = "ok"
    /\ r.fields # NoFields
    /\ r.fields["patient_id"] # NotFound

\* st.session_state.processed_data[patient_id] = {"fields", "text", "filename"}
StoreUpload(data, r, filename) ==
    DictSet(data, PatientKey(r.fields),
            [fields |-> r.fields, text |-> r.text, filename |-> filename])

\* bool(x) of a patient id or None
Truthy(x) == x # None /\ x # <<>>

\* patient_ids.index(x), counted from 0
IndexOf(ids, x) ==
    (CHOOSE i \in 1..Len(ids) : ids[i] = x /\ \A j \in 1..(i - 1) : ids[j] # x) - 1

\* index=patient_ids.index(current_patient) if current_patient in patient_ids else 0
SelectIndex(ids, current) ==
    IF \E i \in 1..Len(ids) : ids[i] = current THEN IndexOf(ids, current) ELSE 0

\* What st.selectbox returns: the value the widget holds when it is rendered
\* with the options and index of the run before, the option at index otherwise.
SelectValue(widget, ids, index) ==
    IF widget # NoWidget /\ widget.options = ids /\ widget.index = index
    THEN widget.value
    ELSE ids[index + 1]

\* Between two script runs: the script has ended, or st.rerun() has ended it
\* and the next run has not begun.
Waiting == app_pc = "idle" \/ (app_pc = "upload" /\ trigger = "rerun")

ProcessLocals == <<pc, file_path, calls, pages, page, text_parts,
                   image_text_parts, full_text, text, fields>>

\* The user drops a file on the uploader; the script runs.
UploadFile ==
    /\ Waiting
    /\ \E doc \in Documents : uploaded_file' = doc
    /\ app_pc' = "upload"
    /\ trigger' = "upload"
    /\ UNCHANGED <<selectbox, current_patient, processed_data, result, ProcessLocals>>

\* The user removes the file from the uploader; the script runs.
RemoveFile ==
    /\ Waiting
    /\ uploaded_file # NoFile
    /\ uploaded_file' = NoFile
    /\ app_pc' = "upload"
    /\ trigger' = "remove"
    /\ UNCHANGED <<selectbox, current_patient, processed_data, result, ProcessLocals>>

\* The user picks another patient in the selector; the script runs.
SelectPatient ==
    /\ Waiting
    /\ selectbox # NoWidget
    /\ \E i \in 1..Len(selectbox.options) :
         /\ selectbox.options[i] # selectbox.value
         /\ selectbox' = [selectbox EXCEPT !.value = selectbox.options[i]]
    /\ app_pc' = "upload"
    /\ trigger' = "select"
    /\ UNCHANGED <<uploaded_file, current_patient, processed_data, result, ProcessLocals>>

\* if uploaded_file: ... fields, text = process_upload(temp_path) ... except
UploadBlock ==
    /\ app_pc = "upload"
    /\ IF uploaded_file = NoFile
       THEN /\ result' = NoResult
            /\ UNCHANGED <<current_patient, processed_data>>
       ELSE \E r \in process_upload(uploaded_file) :
               /\ result' = r
               /\ IF Accepted(r)
                  THEN /\ processed_data' =
                             StoreUpload(processed_data, r, uploaded_file.name)
                       /\ current_patient' = PatientKey(r.fields)
                  ELSE UNCHANGED <<current_patient, processed_data>>
    /\ app_pc' = "select"
    /\ UNCHANGED <<trigger, uploaded_file, selectbox, ProcessLocals>>

\* if st.session_state.processed_data: selected_patient = st.selectbox(...);
\* if selected_patient and selected_patient != current_patient: set, st.rerun()
SelectBlock ==
    /\ app_pc = "select"
    /\ result' = NoResult
    /\ IF processed_data = <<>>
       THEN /\ selectbox' = NoWidget
            /\ app_pc' = "idle"
            /\ trigger' = "none"
            /\ UNCHANGED current_patient
       ELSE LET patient_ids == Keys(processed_data)
                index == SelectIndex(patient_ids, current_patient)
                selected_patient == SelectValue(selectbox, patient_ids, index)
            IN  /\ selectbox' = [options |-> patient_ids, index |-> index,
                                 value |-> selected_patient]
                /\ IF Truthy(selected_patient) /\ selected_patient # current_patient
                   THEN /\ current_patient' = selected_patient
                        /\ app_pc' = "upload"
                        /\ trigger' = "rerun"
                   ELSE /\ app_pc' = "idle"
                        /\ trigger' = "none"
                        /\ UNCHANGED current_patient
    /\ UNCHANGED <<uploaded_file, processed_data, ProcessLocals>>

NextApp ==
    \/ UploadFile
    \/ RemoveFile
    \/ SelectPatient
    \/ UploadBlock
    \/ SelectBlock

SpecApp == Init /\ [][NextApp]_vars

(***************************************************************************)
(* What the properties below speak of.                                     *)
(***************************************************************************)
\* The extension of a path: from its last dot on, lower-cased; empty without a dot.
Extension(path) ==
    LET dots == {i \in 1..Len(path) : path[i] = "."}
    IN  IF dots = {} THEN <<>>
        ELSE Lower(SubSeq(path, CHOOSE i \in dots : \A j \in dots : i >= j, Len(path)))

ImageExtensions == {<<".","p","n","g">>, <<".","j","p","g">>, <<".","j","p","e","g">>}

SupportedExtensions == ImageExtensions \cup {<<".","p","d","f">>}

\* The calls that recognize an image, and the calls that read the file's content.
RecognizerOps == {"cv2.imread", "_process_image_for_ocr",
                  "image_to_string(threshold)", "image_to_string(gray)"}

OcrOps == {"page.to_image", "_process_image_for_ocr",
           "image_to_string(threshold)", "image_to_string(gray)"}

ReadOps == {"Image.verify", "pdfplumber.open", "page.extract_text"}
           \cup RecognizerOps \cup OcrOps

OpsCalled == {calls[i].op : i \in DOMAIN calls}

TimesCalled(op) == Cardinality({i \in DOMAIN calls : calls[i].op = op})

\* The call whose text _process_image_for_ocr returned: the grayscale pass when
\* it ran, else the thresholded pass.
IsPageResult(c) ==
    \/ c.op = "image_to_string(gray)" /\ c.ok
    \/ c.op = "image_to_string(threshold)" /\ c.ok /\ c.value # <<>>

\* The text holds `line` as one of its lines.
HasLine(s, line) ==
    \E i \in 1..Len(s) :
       /\ StartsWithAt(s, line, i)
       /\ i = 1 \/ s[i - 1] = NL
       /\ i + Len(line) = Len(s) + 1 \/ s[i + Len(line)] = NL

\* The error kinds of the specification, by raise site.
ErrorKind(site) ==
    CASE site = "not_found"     -> "NotFound"
      [] site = "unsupported"   -> "UnsupportedFormat"
      [] site = "corrupt_image" -> "CorruptInput"
      [] site = "pdf_open"      -> "CorruptInput"
      [] site = "no_text"       -> "RecognitionFailure"
      [] site = "no_id"         -> "MissingIdentifier"
      [] OTHER                  -> "Processing"

RejectionSites == {"not_found", "unsupported", "corrupt_image", "pdf_open",
                   "no_text", "no_id"}

(***************************************************************************)
(* C1                                                                      *)
(***************************************************************************)
\* C1: process_upload never returns fields whose patient_id is "Not found";
\* when the recovered text is non-empty and the identifier pattern matches
\* nothing in it, the call raises the missing-identifier error and hands no
\* fields to the caller, whatever else was extracted.
C1_NeverReturnsSentinelId ==
    /\ result.kind = "ok" => result.fields["patient_id"] # NotFound
    /\ (pc = "done" /\ Strip(text) # <<>> /\ ~Search(PatientIdPattern, text).found)
         => /\ result.kind = "error"
            /\ result.exc = handle_errors("process_upload", MissingIdError)
            /\ result.fields = NoFields

\* A call that extracted a name and still failed for want of an identifier.
C1_Witness ==
    /\ pc = "done"
    /\ result.kind = "error"
    /\ result.site = "no_id"
    /\ fields["name"] = <<"D","a","v","i","d">>

(***************************************************************************)
(* C2                                                                      *)
(***************************************************************************)
\* C2: when the loader's text is empty after trimming, the next step of
\* process_upload raises the no-text error, no pattern having been applied;
\* and no result is ever returned for such a text.
C2_EmptyTextFailsBeforePatterns ==
    [][/\ (pc = "check_text" /\ Strip(text) = <<>>)
            => /\ pc' = "done"
               /\ result'.kind = "error"
               /\ result'.exc = handle_errors("process_upload", NoTextError)
               /\ result'.fields = NoFields
               /\ \A i \in DOMAIN calls' : calls'[i].op # "re.search"
       /\ result'.kind = "ok" => Strip(result'.text) # <<>>]_vars

\* A supported file that exists, failing because nothing was recognized.
C2_Witness ==
    /\ pc = "done"
    /\ result.site = "no_text"
    /\ Extension(file_path) \in SupportedExtensions
    /\ calls[1].ok
    /\ Strip(text) = <<>>

(***************************************************************************)
(* C3                                                                      *)
(***************************************************************************)
\* C3: for a path that exists and whose extension, compared caselessly, is
\* none of .pdf .png .jpg .jpeg, the call raises the unsupported-format error
\* and has read nothing of the file; the existence test is the first call, a
\* path that does not exist fails as not found whatever its extension, and a
\* supported extension is never rejected as unsupported.
C3_UnsupportedRejectedBeforeReading ==
    /\ calls # <<>> => calls[1].op = "os.path.exists"
    /\ Extension(file_path) \notin SupportedExtensions => OpsCalled \cap ReadOps = {}
    /\ (pc = "done" /\ calls[1].ok /\ Extension(file_path) \notin SupportedExtensions)
         => /\ result.kind = "error"
            /\ result.exc = handle_errors("process_upload", UnsupportedFormatError)
            /\ Len(calls) = 1
    /\ (pc = "done" /\ ~calls[1].ok)
         => /\ result.kind = "error"
            /\ result.exc = handle_errors("process_upload", FileNotFoundError(file_path))
            /\ Len(calls) = 1
    /\ (pc = "done" /\ Extension(file_path) \in SupportedExtensions)
         => result.site # "unsupported"

\* An existing .txt file, rejected after the existence test alone.
C3_Witness ==
    /\ pc = "done"
    /\ Extension(file_path) = <<".","t","x","t">>
    /\ calls = <<Called("os.path.exists", TRUE)>>
    /\ result.site = "unsupported"

(***************************************************************************)
(* C4                                                                      *)
(***************************************************************************)
\* C4: in an image upload every recognizer call comes after a verification
\* that passed; once verification has failed the call is over, with the
\* corrupt-image error, and no recognizer call was made.
C4_VerifyBeforeRecognition ==
    /\ Extension(file_path) \in ImageExtensions =>
         \A j \in DOMAIN calls :
            calls[j].op \in RecognizerOps =>
               \E i \in 1..(j - 1) : calls[i] = Called("Image.verify", TRUE)
    /\ \A i \in DOMAIN calls :
         calls[i] = Called("Image.verify", FALSE) =>
            /\ pc = "done"
            /\ result.kind = "error"
            /\ \E e \in PilErrors :
                 result.exc = handle_errors("process_upload", CorruptImageError(e))
            /\ OpsCalled \cap RecognizerOps = {}

\* A corrupt image: verification failed and the call ended there.
C4_Witness ==
    /\ pc = "done"
    /\ Extension(file_path) \in ImageExtensions
    /\ calls = <<Called("os.path.exists", TRUE), Called("Image.verify", FALSE)>>
    /\ result.site = "corrupt_image"

(***************************************************************************)
(* C5                                                                      *)
(***************************************************************************)
\* C5 as claimed: a failed call's error kind (its exception type) is not the
\* kind raised for any rejection of another kind, so the caller can tell the
\* five rejections apart by kind.
C5_RejectionsDifferByKind ==
    (pc = "done" /\ result.kind = "error" /\ result.site \in RejectionSites) =>
        \A s \in RejectionSites :
           ErrorKind(s) # ErrorKind(result.site) =>
              \A e \in Raises(s) : Raised(s, e).exc.type # result.exc.type

\* C5 as amended: every failed call raises one error, always a RuntimeError
\* whose message is "Error in process_upload: " and then the message of the
\* cause; the five rejections share that kind and differ only in the message.
C5_RejectionsDifferByMessage ==
    (pc = "done" /\ result.kind = "error") =>
        /\ result.exc.type = "RuntimeError"
        /\ SubSeq(result.exc.msg, 1, 3) = <<"Error in ", "process_upload", ": ">>
        /\ \E e \in Raises(result.site) :
             SubSeq(result.exc.msg, 4, Len(result.exc.msg)) = e.msg
        /\ result.site \in RejectionSites =>
             \A s \in RejectionSites :
                ErrorKind(s) # ErrorKind(result.site) =>
                   \A e \in Raises(s) : Raised(s, e).exc.msg # result.exc.msg

\* A PDF that does not open: the loader's RuntimeError, wrapped once more.
C5_Witness ==
    /\ pc = "done"
    /\ result.kind = "error"
    /\ result.site = "pdf_open"
    /\ SubSeq(result.exc.msg, 1, 6) = <<"Error in ", "process_upload", ": ",
                                        "Error in ", "extract_text_from_pdf", ": ">>

(***************************************************************************)
(* C6                                                                      *)
(***************************************************************************)
\* C6: the fields process_upload builds and returns have exactly the nine
\* keys, and a key whose pattern finds no match in the text holds "Not found".
C6_ExactlyNineFields ==
    /\ pc = "check_id" => DOMAIN fields = FieldNames
    /\ result.kind = "ok" =>
         /\ DOMAIN result.fields =
               {"name", "age", "patient_id", "disease", "gender", "blood",
                "address", "phone", "medicines"}
         /\ \A key \in DOMAIN result.fields :
               ~Search(patterns[key], result.text).found
                  => result.fields[key] = NotFound

\* A returned result with a matched and an unmatched field.
C6_Witness ==
    /\ pc = "done"
    /\ result.kind = "ok"
    /\ result.fields["age"] = <<"4">>
    /\ result.fields["gender"] = NotFound

(***************************************************************************)
(* C7                                                                      *)
(***************************************************************************)
\* C7: in extract_text_from_pdf, when the pages' text layers joined and
\* trimmed are non-empty, that text is what is returned and no page was
\* rendered or recognized; a page is rendered or recognized only when the
\* joined text layers are empty, and the function then returns only after
\* rendering and recognizing every page.
C7_OcrOnlyWithoutDigitalText ==
    LET digital == Strip(Join(<<NL>>, text_parts))
    IN  /\ pc \in {"render", "ocr", "ocr_gray", "ocr_join", "pdf_return"} =>
             (OpsCalled \cap OcrOps # {} => digital = <<>>)
        /\ pc = "pdf_return" =>
             IF digital # <<>>
             THEN /\ full_text = digital
                  /\ OpsCalled \cap OcrOps = {}
             ELSE /\ TimesCalled("page.to_image") = pages
                  /\ TimesCalled("_process_image_for_ocr") = pages
                  /\ Len(image_text_parts) = pages

\* A two-page PDF with a text layer, returned without any OCR.
C7_Witness ==
    /\ pc = "pdf_return"
    /\ pages = 2
    /\ text_parts = <<DavidLine, PatientIdLine>>
    /\ full_text = DavidLine \o <<NL>> \o PatientIdLine
    /\ OpsCalled \cap OcrOps = {}

(***************************************************************************)
(* C8                                                                      *)
(***************************************************************************)
\* C8: for a PDF of N >= 1 pages without digital text, the text returned is
\* the pages' OCR results in page order joined by the separator, and holds
\* the separator N - 1 times when no page's result holds it; a page whose
\* rendering or recognition raises ends the call with an error and no text.
C8_PagesJoinedBySeparator ==
    /\ (pc = "pdf_return" /\ pages >= 1 /\ Strip(Join(<<NL>>, text_parts)) = <<>>)
         => LET recognized == SelectSeq(calls, IsPageResult)
                results == [i \in 1..Len(recognized) |-> recognized[i].value]
            IN  /\ Len(results) = pages
                /\ full_text = Join(PAGE_BREAK, results)
                /\ (\A i \in 1..pages : ~Contains(results[i], PAGE_BREAK))
                      => Count(full_text, PAGE_BREAK) = pages - 1
    /\ \A i \in DOMAIN calls :
         (calls[i].op \in OcrOps /\ ~calls[i].ok) =>
            /\ pc = "done"
            /\ result.kind = "error"
            /\ result.text = <<>>
            /\ result.fields = NoFields

\* A scanned two-page PDF whose text holds the separator once.
C8_Witness ==
    /\ pc = "pdf_return"
    /\ pages = 2
    /\ TimesCalled("image_to_string(gray)") = 1
    /\ full_text = DavidLine \o PAGE_BREAK \o PatientIdLine
    /\ Count(full_text, PAGE_BREAK) = 1

(***************************************************************************)
(* C9                                                                      *)
(***************************************************************************)
\* C9: whenever the text holds the line "Patient ID: ABC-123", the patient_id
\* field extracted from it is "ABC-123".
C9_PatientIdLineExtracted ==
    (pc = "check_id" /\ HasLine(text, PatientIdLine))
       => fields["patient_id"] = <<"A","B","C","-","1","2","3">>

(***************************************************************************)
(* C10                                                                     *)
(***************************************************************************)
\* The medicines pattern as specified: the label, then the text up to a blank
\* line, the next capitalized-word label line, or the end.
MedicinesAsSpecified ==
    [pre  |-> MedicinesPattern.pre,
     cap  |-> MedicinesPattern.cap,
     post |-> <<MedicinesPattern.post[1]>>]

\* C10: when the text holds a Medication(s) label followed by a value, the
\* medicines field is that value up to the blank line, the next label line or
\* the end, whitespace-normalized; it is "Not found" only without such a label.
C10_MedicinesCaptured ==
    pc = "check_id" =>
       LET match == Search(MedicinesAsSpecified, text)
       IN  fields["medicines"] =
              IF match.found THEN CleanValue(match.group1) ELSE NotFound

(***************************************************************************)
(* C11                                                                     *)
(***************************************************************************)
\* What _process_image_for_ocr handed back: the text of an image upload, or
\* the newest page result of a scanned PDF.
OcrReturned ==
    IF Extension(file_path) \in ImageExtensions THEN text
    ELSE image_text_parts[Len(image_text_parts)]

\* Where the call is once _process_image_for_ocr has returned.
AfterOcr == {"check_text", "render", "ocr_join"}

\* C11: _process_image_for_ocr runs the thresholded pass first; when that pass
\* yields text that is not empty after trimming, that text is returned and the
\* grayscale pass is not run; when it yields nothing but whitespace, the
\* grayscale pass is run next and its text is what is returned; the grayscale
\* pass runs in no other case, and what is returned is always a trimmed text.
C11_GrayscaleIffThresholdEmpty ==
    [][LET n == Len(calls')
           last == calls'[n]
       IN  /\ pc = "ocr" =>
                /\ n = Len(calls) + 2
                /\ calls'[n - 1].op = "_process_image_for_ocr"
                /\ last.op = "image_to_string(threshold)"
                /\ last.ok =>
                     IF last.value = <<>>
                     THEN pc' = "ocr_gray"
                     ELSE /\ pc' \in AfterOcr
                          /\ OcrReturned' = last.value
                /\ ~last.ok => pc' = "done" /\ result'.kind = "error"
           /\ pc = "ocr_gray" =>
                /\ n = Len(calls) + 1
                /\ last.op = "image_to_string(gray)"
                /\ calls[Len(calls)] = Recognized("image_to_string(threshold)", <<>>)
                /\ last.ok =>
                     /\ pc' \in AfterOcr
                     /\ OcrReturned' = last.value
                /\ ~last.ok => pc' = "done" /\ result'.kind = "error"
           /\ (pc \in {"ocr", "ocr_gray"} /\ pc' \in AfterOcr) =>
                /\ OcrReturned' \in Seq(STRING)
                /\ OcrReturned' = Strip(OcrReturned')
           /\ (n > Len(calls) /\ last.op = "image_to_string(gray)") => pc = "ocr_gray"
           /\ pc' = "ocr_gray" => pc = "ocr"]_vars

\* An image whose thresholded pass found only whitespace and whose grayscale
\* pass found the identifier line.
C11_Witness ==
    /\ pc = "check_text"
    /\ Extension(file_path) \in ImageExtensions
    /\ Len(calls) = 6
    /\ calls[5] = Recognized("image_to_string(threshold)", <<>>)
    /\ calls[6] = Recognized("image_to_string(gray)", PatientIdLine)
    /\ text = PatientIdLine

(***************************************************************************)
(* C12                                                                     *)
(***************************************************************************)
\* current_patient is None or a key of processed_data; every entry is stored
\* under its own fields' patient_id, which is not "Not found"; no key twice.
SessionConsistent ==
    /\ current_patient = None
         \/ \E i \in 1..Len(processed_data) : processed_data[i].key = current_patient
    /\ \A i \in 1..Len(processed_data) :
         /\ processed_data[i].key = processed_data[i].value.fields["patient_id"]
         /\ processed_data[i].key # NotFound
         /\ \A j \in 1..Len(processed_data) :
              processed_data[j].key = processed_data[i].key => j = i

\* C12: whatever the user uploads and selects, the session stays consistent:
\* current_patient is None or a key of processed_data and every entry is
\* stored under its own patient_id, never "Not found"; an upload whose
\* process_upload call fails leaves processed_data and current_patient as
\* they were; a successful one stores the document under its patient_id and
\* makes that current_patient; a document that cannot be opened or whose text
\* holds no identifier is a failed upload, and the rest of the script run a
\* failed upload started changes neither.
C12_SessionStaysConsistent ==
    [][/\ SessionConsistent
       /\ SessionConsistent'
       /\ (app_pc = "upload" /\ app_pc' = "select" /\ uploaded_file # NoFile) =>
            /\ result'.kind \in {"ok", "error"}
            /\ (~uploaded_file.readable
                  \/ ~Search(PatientIdPattern, uploaded_file.text).found)
                 => result'.kind = "error"
            /\ result'.kind = "error" =>
                 /\ processed_data' = processed_data
                 /\ current_patient' = current_patient
            /\ result'.kind = "ok" =>
                 /\ current_patient' = result'.fields["patient_id"]
                 /\ \E i \in 1..Len(processed_data') :
                      /\ processed_data'[i].key = current_patient'
                      /\ processed_data'[i].value =
                           [fields |-> result'.fields, text |-> result'.text,
                            filename |-> uploaded_file.name]
                      /\ \A j \in 1..Len(processed_data) :
                           j # i => processed_data'[j] = processed_data[j]
       /\ (app_pc = "upload" /\ app_pc' = "select" /\ uploaded_file = NoFile) =>
            /\ processed_data' = processed_data
            /\ current_patient' = current_patient
       /\ (app_pc = "select" /\ trigger = "upload" /\ result.kind = "error") =>
            /\ processed_data' = processed_data
            /\ current_patient' = current_patient]_vars

\* Two patients processed, then an upload without an identifier: it failed
\* and the session is as it was.
C12_Witness ==
    /\ app_pc = "select"
    /\ trigger = "upload"
    /\ uploaded_file.text = DavidLine
    /\ result.kind = "error"
    /\ result.site = "no_id"
    /\ Len(processed_data) = 2
    /\ current_patient = <<"7">>

(***************************************************************************)
(* C13                                                                     *)
(***************************************************************************)
\* C13: with at least two patients processed, once the user has picked in
\* the selector a patient other than current_patient, the script run makes
\* the picked patient current_patient and calls for a rerun; in that rerun
\* neither the upload block nor the selection block changes current_patient,
\* and the rerun ends with the app idle instead of calling for another rerun.
C13_SelectionSurvivesRerun ==
    [][/\ (trigger = "select" /\ app_pc = "select" /\ Len(processed_data) >= 2
             /\ selectbox.value # current_patient)
            => /\ current_patient' = selectbox.value
               /\ trigger' = "rerun"
       /\ (trigger = "rerun" /\ app_pc = "upload" /\ app_pc' = "select"
             /\ Len(processed_data) >= 2)
            => current_patient' = current_patient
       /\ (trigger = "rerun" /\ app_pc = "select" /\ Len(processed_data) >= 2)
            => /\ current_patient' = current_patient
               /\ app_pc' = "idle"]_vars

====
